---- MODULE Spec2Model ----
(***************************************************************************)
(* BleInTheBackground: the PLXBackground native module (Background.m), its *)
(* JS wrapper (Background.ts), the AppDelegate launch handler and the jobs *)
(* of BleManager.ts that use them.                                         *)
(*                                                                         *)
(* Three executors are modelled.  The JS thread runs one JS task at a time *)
(* (an API call, a promise continuation, an event emission).  Calls from   *)
(* JS to the native module are asynchronous: they are appended to          *)
(* callQueue and the module's serial method queue runs them in order, one  *)
(* exported method per step.  The main queue runs timer work units, the    *)
(* OS expiration handlers and the processing-task launch handler.  What    *)
(* native code sends to JS (promise settlements, events) is appended to    *)
(* jsQueue and handled by the JS thread in order.                          *)
(***************************************************************************)
EXTENDS Integers, Sequences, FiniteSets, TLC

\* ---------------------------------------------------------------- bounds
MaxTimers == 3
MaxCallQueue == 2
MaxStarts == 2
MaxSchedules == 2
MaxLaunches == 2
ExtraTicks == 1
MaxRx == 2
MaxErrors == 1
TickTimeout == 2
MaxDrainValues == 2
MaxClock == 5
MaxEstablish == 2
MaxDisconnects == 2
MaxScanEvents == 2

\* downloadTicks: the request is one byte
TicksLimit == 256

\* ------------------------------------------------------------- variables
VARIABLES
  \* native module (Background.m)
  pendingTimers,           \* timeoutId -> work block
  blocks,                  \* every dispatch block created by setTimeout
  hasListeners,
  listenerCount,           \* RCTEventEmitter's listener count
  pendingBackgroundTasks,  \* taskName -> OS token
  tokens,                  \* OS: every background window granted so far
  lastOp,                  \* the tracker's last operation (history)
  \* bridge
  callQueue,               \* JS -> native module calls, in order
  jsQueue,                 \* native -> JS promise settlements and events
  \* JS (Background.ts)
  nextTimeoutId,
  timeouts,                \* one record per Background.setTimeout call
  listeners,               \* PLXEventEmitter's subscriptions
  startCalls,              \* one record per Background.startBackgroundTask call
  jobs,                    \* executeJob / restoredProcess invocations
  now,                     \* Date.now() at the latest job start
  \* processing task: OS scheduler, native module, JS
  submitted,               \* BGTaskScheduler: identifiers with a pending request
  instances,               \* OS: every BGProcessingTask instance delivered so far
  executingTasks,          \* identifier -> instance
  registeredCallbacks,     \* taskName -> schedule call whose callbacks are kept
  schedCalls,              \* one record per scheduleBackgroundProcessingTask call
  procJobs,                \* jobs started by the on-executing callback
  \* BLE (BleManager.ts)
  dl,                      \* the downloadTicks session
  drain,                   \* the waitForPendingTicks session
  conn,                    \* establishConnection / connectToDevice calls and the device
  scan,                    \* the scanDevice session
  \* native module, method queue
  mq                       \* the exported method the method queue is in the middle of

timerVars == <<pendingTimers, blocks, nextTimeoutId, timeouts>>
emitterVars == <<hasListeners, listenerCount, listeners>>
bridgeVars == <<callQueue, jsQueue, mq>>
taskVars == <<pendingBackgroundTasks, tokens, lastOp, startCalls, jobs, now>>
procVars == <<submitted, instances, executingTasks, registeredCallbacks,
              schedCalls, procJobs>>
bleVars == <<dl, drain, conn, scan>>
vars == <<timerVars, emitterVars, bridgeVars, taskVars, procVars, bleVars>>

\* ------------------------------------------------- dictionaries, messages
SetValue(d, k, v) == [x \in (DOMAIN d) \cup {k} |-> IF x = k THEN v ELSE d[x]]
RemoveObject(d, k) == [x \in (DOMAIN d) \ {k} |-> d[x]]
EmptyDict == [x \in {} |-> 0]

\* AppDelegate: registerForTaskWithIdentifier:@"LongRunningTask"
RegisteredIdentifiers == {"LongRunningTask"}

NoOp == [op |-> "other", n |-> 0, t |-> 0]

Call(m, n, id, p, r) == [m |-> m, n |-> n, id |-> id, p |-> p, r |-> r]
Msg(t, n, p) == [t |-> t, n |-> n, p |-> p]

NextCall(m) == callQueue # <<>> /\ Head(callQueue).m = m
NextMsg(t) == jsQueue # <<>> /\ Head(jsQueue).t = t

\* No downloadTicks / waitForPendingTicks call made yet.
NoDownload == [st |-> "none"]
NoDrain == [st |-> "none"]
\* BLE manager just constructed: radio state not yet known, no
\* establishConnection call, no disconnect subscription.
NoConnection ==
  [radio |-> "Unknown", connected |-> FALSE, calls |-> <<>>, observers |-> {},
   disconnects |-> 0]

\* subscriptions.timeout = null
NullTimeout == -1

\* No scanDevice call made yet.
NoScan ==
  [st |-> "none", timeout |-> NullTimeout, p |-> 0, scanning |-> FALSE, sent |-> 0,
   reason |-> ""]
\* The method queue is between two exported methods.
Idle == [pc |-> "idle", val |-> 0]

\* ------------------------------------------------------------------ Init
Init ==
  /\ pendingTimers = EmptyDict
  /\ blocks = <<>>
  /\ hasListeners = FALSE
  /\ listenerCount = 0
  /\ callQueue = <<>>
  /\ jsQueue = <<>>
  /\ nextTimeoutId = 0
  /\ timeouts = <<>>
  /\ listeners = {}
  /\ pendingBackgroundTasks = EmptyDict
  /\ tokens = <<>>
  /\ lastOp = NoOp
  /\ startCalls = <<>>
  /\ jobs = <<>>
  /\ now = 0
  /\ submitted \in SUBSET RegisteredIdentifiers
  /\ instances = <<>>
  /\ executingTasks = EmptyDict
  /\ registeredCallbacks = EmptyDict
  /\ schedCalls = <<>>
  /\ procJobs = <<>>
  /\ dl = NoDownload
  /\ drain = NoDrain
  /\ conn = NoConnection
  /\ scan = NoScan
  /\ mq = Idle

\* =================================================================== timers
\* Background.ts: const timeoutId = nextTimeoutId++
NextTimeoutId(n) == n + 1

\* Background.ts setTimeout: takes a fresh id, calls the native setTimeout and
\* chains the callback on its promise.
JsSetTimeout ==
  /\ Len(timeouts) < MaxTimers
  /\ nextTimeoutId' = NextTimeoutId(nextTimeoutId)
  /\ timeouts' = Append(timeouts,
                   [id |-> nextTimeoutId, st |-> "waiting", cleared |-> FALSE])
  /\ callQueue' = Append(callQueue,
                   Call("setTimeout", 0, nextTimeoutId, Len(timeouts) + 1, FALSE))
  /\ UNCHANGED <<mq, bleVars, pendingTimers, blocks, emitterVars, jsQueue, taskVars, procVars>>

\* Background.ts clearTimeout: forwards the id to the native module.  The
\* field cleared records that the timer was cleared while its callback had
\* not yet run.
JsClearTimeout(id) ==
  /\ Len(callQueue) < MaxCallQueue
  /\ callQueue' = Append(callQueue, Call("clearTimeout", 0, id, 0, FALSE))
  /\ timeouts' = [k \in DOMAIN timeouts |->
                   IF timeouts[k].id = id /\ timeouts[k].st = "waiting"
                   THEN [timeouts[k] EXCEPT !.cleared = TRUE]
                   ELSE timeouts[k]]
  /\ UNCHANGED <<mq, bleVars, pendingTimers, blocks, nextTimeoutId, emitterVars, jsQueue, taskVars, procVars>>

\* Background.m setTimeout: creates the work block, hands it to the main
\* queue with dispatch_after and records it under timeoutId.
NativeSetTimeout ==
  /\ NextCall("setTimeout")
  /\ LET c == Head(callQueue) IN
       /\ blocks' = Append(blocks, [id |-> c.id, p |-> c.p, st |-> "scheduled"])
       /\ pendingTimers' = SetValue(pendingTimers, c.id, Len(blocks) + 1)
  /\ callQueue' = Tail(callQueue)
  /\ UNCHANGED <<mq, bleVars, nextTimeoutId, timeouts, emitterVars, jsQueue, taskVars, procVars>>

\* dispatch_block_cancel: a block that has not started is never run.
DispatchBlockCancelNoop(bs, b) == bs
DispatchBlockCancel(bs, b) ==
  [bs EXCEPT ![b].st = IF @ = "scheduled" THEN "cancelled" ELSE @]

\* Background.m clearTimeout.
NativeClearTimeout ==
  /\ NextCall("clearTimeout")
  /\ LET id == Head(callQueue).id IN
       IF id \in DOMAIN pendingTimers
       THEN /\ blocks' = DispatchBlockCancel(blocks, pendingTimers[id])
            /\ pendingTimers' = RemoveObject(pendingTimers, id)
       ELSE UNCHANGED <<blocks, pendingTimers>>
  /\ callQueue' = Tail(callQueue)
  /\ UNCHANGED <<mq, bleVars, nextTimeoutId, timeouts, emitterVars, jsQueue, taskVars, procVars>>

\* The work block of setTimeout, run by the main queue once the delay has passed:
\* removes the entry of its id and resolves the promise.
TimerFire(b) ==
  /\ blocks[b].st = "scheduled"
  /\ blocks' = [blocks EXCEPT ![b].st = "ran"]
  /\ pendingTimers' = RemoveObject(pendingTimers, blocks[b].id)
  /\ jsQueue' = Append(jsQueue, Msg("timerResolved", 0, blocks[b].p))
  /\ UNCHANGED <<mq, bleVars, nextTimeoutId, timeouts, emitterVars, callQueue, taskVars, procVars>>

\* Background.ts setTimeout, the continuation of the native promise: callback().
JsTimerResolved ==
  /\ NextMsg("timerResolved")
  /\ timeouts' = [timeouts EXCEPT ![Head(jsQueue).p].st = "ran"]
  /\ jsQueue' = Tail(jsQueue)
  /\ UNCHANGED <<mq, bleVars, pendingTimers, blocks, nextTimeoutId, emitterVars, callQueue, taskVars, procVars>>

NextTimers ==
  \/ JsSetTimeout
  \/ \E id \in 0..MaxTimers : JsClearTimeout(id)
  \/ NativeSetTimeout
  \/ NativeClearTimeout
  \/ \E b \in DOMAIN blocks : TimerFire(b)
  \/ JsTimerResolved

SpecTimers == Init /\ [][NextTimers]_vars

\* ========================================================== event emitter
\* RCTEventEmitter addListener, reached from PLXEventEmitter.addListener: the
\* first listener makes the module startObserving.
NativeAddListener ==
  /\ NextCall("addListener")
  /\ listenerCount' = listenerCount + 1
  /\ hasListeners' = IF listenerCount = 0 THEN TRUE ELSE hasListeners
  /\ callQueue' = Tail(callQueue)
  /\ UNCHANGED <<mq, bleVars, listeners, jsQueue, timerVars, taskVars, procVars>>

\* RCTEventEmitter removeListeners(count), reached from removeListener and
\* removeAllListeners: the last listener gone makes the module stopObserving.
NativeRemoveListeners ==
  /\ NextCall("removeListeners")
  /\ LET left == IF listenerCount > Head(callQueue).id
                 THEN listenerCount - Head(callQueue).id ELSE 0 IN
       /\ listenerCount' = left
       /\ hasListeners' = IF left = 0 THEN FALSE ELSE hasListeners
  /\ callQueue' = Tail(callQueue)
  /\ UNCHANGED <<mq, bleVars, listeners, jsQueue, timerVars, taskVars, procVars>>

AddListenerCall == Call("addListener", 0, 0, 0, FALSE)
RemoveListenersCall(count) == Call("removeListeners", 0, count, 0, FALSE)

\* ======================================================== background tasks
TaskListener(c) == [ev |-> "BackgroundTaskExpired", c |-> c]

\* Background.ts startBackgroundTask up to its await: registers the expiry
\* listener, then calls the native startBackgroundTask.  cb is what the
\* caller's expiredCallback does: "endNow" calls endBackgroundTask at once (as
\* executeJob and restoredProcess do), "endLater" leaves it to a later call.
StartBackgroundTaskCalls(name) ==
  <<AddListenerCall, Call("startBackgroundTask", name, 0, Len(startCalls) + 1, FALSE)>>
StartBackgroundTaskRecord(name, cb) ==
  [n |-> name, cb |-> cb, native |-> "pending", st |-> "awaiting", ended |-> FALSE]

\* Task names are the caller's choice; they are numbered in the order of
\* their first use.
TaskNames == 1..MaxStarts
UsedNames == {startCalls[c].n : c \in DOMAIN startCalls}

\* A caller of the module starts a task.
JsStartBackgroundTask(name, cb) ==
  /\ Len(startCalls) < MaxStarts
  /\ \A m \in 1..(name - 1) : m \in UsedNames
  /\ listeners' = listeners \cup {TaskListener(Len(startCalls) + 1)}
  /\ startCalls' = Append(startCalls, StartBackgroundTaskRecord(name, cb))
  /\ callQueue' = callQueue \o StartBackgroundTaskCalls(name)
  /\ UNCHANGED <<mq, bleVars, hasListeners, listenerCount, jsQueue, timerVars, procVars,
                 pendingBackgroundTasks, tokens, lastOp, jobs, now>>

\* Background.endBackgroundTask is the native method itself.  The caller of
\* start call c ends its task (once; ended records that it did).
EndBackgroundTaskCall(name) == Call("endBackgroundTask", name, 0, 0, FALSE)

JsEndBackgroundTask(c) ==
  /\ ~startCalls[c].ended
  /\ \A j \in DOMAIN jobs : jobs[j].c # c
  /\ startCalls' = [startCalls EXCEPT ![c].ended = TRUE]
  /\ callQueue' = Append(callQueue, EndBackgroundTaskCall(startCalls[c].n))
  /\ UNCHANGED <<mq, bleVars, emitterVars, jsQueue, timerVars, procVars,
                 pendingBackgroundTasks, tokens, lastOp, jobs, now>>

\* BleManager.ts executeJob / restoredProcess up to their first await: the
\* task is named after Date.now(), started (not awaited) and the BLE steps
\* begin.  sameMs: the clock still shows the millisecond of the previous job.
JsStartJob(kind, sameMs) ==
  /\ Len(startCalls) < MaxStarts
  /\ sameMs => jobs # <<>>
  /\ LET taskName == IF sameMs THEN now ELSE now + 1 IN
       /\ now' = taskName
       /\ startCalls' = Append(startCalls, StartBackgroundTaskRecord(taskName, "endNow"))
       /\ callQueue' = callQueue \o StartBackgroundTaskCalls(taskName)
  /\ listeners' = listeners \cup {TaskListener(Len(startCalls) + 1)}
  /\ jobs' = Append(jobs, [kind |-> kind, c |-> Len(startCalls) + 1, st |-> "running"])
  /\ UNCHANGED <<mq, bleVars, hasListeners, listenerCount, jsQueue, timerVars, procVars,
                 pendingBackgroundTasks, tokens, lastOp>>

\* Whether the job calls endBackgroundTask when its BLE steps settle:
\* executeJob awaits downloadTicks with no try, so a rejection leaves the
\* function before the call; restoredProcess catches the error first.
JobEndsTask(kind, ok) == kind = "restoredProcess" \/ ok

\* The BLE steps of a job settle (ok) or fail (~ok).
JsJobSettles(j, ok) ==
  /\ jobs[j].st = "running"
  /\ IF JobEndsTask(jobs[j].kind, ok)
     THEN /\ callQueue' = Append(callQueue, EndBackgroundTaskCall(startCalls[jobs[j].c].n))
          /\ jobs' = [jobs EXCEPT ![j].st = "finished"]
          /\ startCalls' = [startCalls EXCEPT ![jobs[j].c].ended = TRUE]
     ELSE /\ jobs' = [jobs EXCEPT ![j].st = "failed"]
          /\ UNCHANGED <<callQueue, startCalls>>
  /\ UNCHANGED <<mq, bleVars, emitterVars, jsQueue, timerVars, procVars,
                 pendingBackgroundTasks, tokens, lastOp, now>>

\* UIApplication endBackgroundTask: the window is given back to the OS.  by
\* records who gave it back: "end" (endBackgroundTask), "auto" (its own
\* expiration handler), "autoOther" (the handler of another window).
EndBackgroundTaskForgotten(ts, t, by) == ts
EndBackgroundTaskOS(ts, t, by) == [ts EXCEPT ![t].st = "released", ![t].by = by]

\* Background.m startBackgroundTask: the OS grants a window or refuses.
NativeStartBackgroundTask(granted) ==
  /\ NextCall("startBackgroundTask")
  /\ LET c == Head(callQueue) IN
       IF granted
       THEN /\ tokens' = Append(tokens, [n |-> c.n, c |-> c.p, st |-> "active",
                                         expired |-> FALSE, by |-> ""])
            /\ pendingBackgroundTasks' =
                 SetValue(pendingBackgroundTasks, c.n, Len(tokens) + 1)
            /\ lastOp' = [op |-> "start", n |-> c.n, t |-> Len(tokens) + 1]
            /\ jsQueue' = Append(jsQueue, Msg("startResolved", c.n, c.p))
       ELSE /\ lastOp' = NoOp
            /\ jsQueue' = Append(jsQueue, Msg("startRejected", c.n, c.p))
            /\ UNCHANGED <<tokens, pendingBackgroundTasks>>
  /\ callQueue' = Tail(callQueue)
  /\ UNCHANGED <<mq, bleVars, emitterVars, timerVars, procVars, startCalls, jobs, now>>

\* Background.m endBackgroundTask.
NativeEndBackgroundTask ==
  /\ NextCall("endBackgroundTask")
  /\ LET name == Head(callQueue).n IN
       /\ IF name \in DOMAIN pendingBackgroundTasks
          THEN /\ tokens' = EndBackgroundTaskOS(tokens, pendingBackgroundTasks[name], "end")
               /\ pendingBackgroundTasks' = RemoveObject(pendingBackgroundTasks, name)
          ELSE UNCHANGED <<tokens, pendingBackgroundTasks>>
       /\ lastOp' = IF lastOp.op = "start" /\ lastOp.n = name
                     THEN [lastOp EXCEPT !.op = "endAfterStart"] ELSE NoOp
  /\ callQueue' = Tail(callQueue)
  /\ UNCHANGED <<mq, bleVars, emitterVars, jsQueue, timerVars, procVars, startCalls, jobs, now>>

\* The expirationHandler block of startBackgroundTask, called by the OS on the
\* main queue for a window that has not been given back.
ExpiryKeepsTokenAlways(observed) == TRUE
ExpiryKeepsToken(observed) == observed
OsExpireBackgroundTask(t) ==
  /\ tokens[t].st = "active" /\ ~tokens[t].expired
  /\ LET name == tokens[t].n
         ts == [tokens EXCEPT ![t].expired = TRUE] IN
       /\ lastOp' = NoOp
       /\ IF name \in DOMAIN pendingBackgroundTasks
          THEN IF ExpiryKeepsToken(hasListeners)
               THEN /\ jsQueue' = Append(jsQueue, Msg("BackgroundTaskExpired", name, 0))
                    /\ tokens' = ts
                    /\ UNCHANGED pendingBackgroundTasks
               ELSE /\ tokens' = EndBackgroundTaskOS(ts, pendingBackgroundTasks[name],
                                IF pendingBackgroundTasks[name] = t THEN "auto" ELSE "autoOther")
                    /\ pendingBackgroundTasks' = RemoveObject(pendingBackgroundTasks, name)
                    /\ UNCHANGED jsQueue
          ELSE /\ tokens' = ts
               /\ UNCHANGED <<pendingBackgroundTasks, jsQueue>>
  /\ UNCHANGED <<mq, bleVars, emitterVars, callQueue, timerVars, procVars, startCalls, jobs, now>>

\* Background.ts startBackgroundTask after its await: the native promise resolved.
JsStartResolved ==
  /\ NextMsg("startResolved")
  /\ startCalls' = [startCalls EXCEPT ![Head(jsQueue).p].native = "resolved",
                                      ![Head(jsQueue).p].st = "fulfilled"]
  /\ jsQueue' = Tail(jsQueue)
  /\ UNCHANGED <<mq, bleVars, emitterVars, callQueue, timerVars, procVars,
                 pendingBackgroundTasks, tokens, lastOp, jobs, now>>

\* Background.ts startBackgroundTask, the catch clause: it removes the listener
\* and falls through to `return taskName`, so the wrapper's promise fulfils.
StartOutcomeAfterCatch == "fulfilled"

JsStartRejected ==
  /\ NextMsg("startRejected")
  /\ LET c == Head(jsQueue).p IN
       /\ startCalls' = [startCalls EXCEPT ![c].native = "rejected",
                                           ![c].st = StartOutcomeAfterCatch]
       /\ listeners' = listeners \ {TaskListener(c)}
       /\ callQueue' = IF TaskListener(c) \in listeners
                       THEN Append(callQueue, RemoveListenersCall(1))
                       ELSE callQueue
  /\ jsQueue' = Tail(jsQueue)
  /\ UNCHANGED <<mq, bleVars, hasListeners, listenerCount, timerVars, procVars,
                 pendingBackgroundTasks, tokens, lastOp, jobs, now>>

\* The listeners of startBackgroundTask calls for taskName n, and what they
\* send to the native module when the event arrives, in registration order:
\* expiredCallback (endBackgroundTask for "endNow"), then removeListener.
ExpiryListeners(n) ==
  {c \in DOMAIN startCalls : TaskListener(c) \in listeners /\ startCalls[c].n = n}

RECURSIVE ExpiryCalls(_, _)
ExpiryCalls(cs, n) ==
  IF cs = {} THEN <<>>
  ELSE LET c == CHOOSE x \in cs : \A y \in cs : x <= y IN
         (IF startCalls[c].cb = "endNow"
          THEN <<EndBackgroundTaskCall(n)>> ELSE <<>>)
         \o <<RemoveListenersCall(1)>> \o ExpiryCalls(cs \ {c}, n)

\* The JS thread emits a BackgroundTaskExpired event to the listeners.
JsTaskExpiredEvent ==
  /\ NextMsg("BackgroundTaskExpired")
  /\ LET n == Head(jsQueue).n
         cs == ExpiryListeners(n) IN
       /\ callQueue' = callQueue \o ExpiryCalls(cs, n)
       /\ listeners' = listeners \ {TaskListener(c) : c \in cs}
       /\ startCalls' = [c \in DOMAIN startCalls |->
                          IF c \in cs /\ startCalls[c].cb = "endNow"
                          THEN [startCalls[c] EXCEPT !.ended = TRUE] ELSE startCalls[c]]
  /\ jsQueue' = Tail(jsQueue)
  /\ UNCHANGED <<mq, bleVars, hasListeners, listenerCount, timerVars, procVars,
                 pendingBackgroundTasks, tokens, lastOp, jobs, now>>

NativeTasks ==
  \/ NativeAddListener
  \/ NativeRemoveListeners
  \/ \E granted \in BOOLEAN : NativeStartBackgroundTask(granted)
  \/ NativeEndBackgroundTask
  \/ \E t \in DOMAIN tokens : OsExpireBackgroundTask(t)
  \/ JsStartResolved
  \/ JsStartRejected
  \/ JsTaskExpiredEvent

\* The background-task tracker under callers of the module's API.
NextTasks ==
  \/ \E name \in TaskNames, cb \in {"endNow", "endLater"} : JsStartBackgroundTask(name, cb)
  \/ \E c \in DOMAIN startCalls : JsEndBackgroundTask(c)
  \/ NativeTasks

SpecTasks == Init /\ [][NextTasks]_vars

\* The same, with what a claim about release takes for granted: the method
\* queue and the JS thread work off their queues, the OS expires a window
\* that is not given back, and a caller that started a task ends it.
SpecTasksLive ==
  /\ SpecTasks
  /\ WF_vars(NativeTasks)
  /\ WF_vars(\E c \in DOMAIN startCalls : JsEndBackgroundTask(c))

\* The background-task tracker under the jobs of BleManager.ts.
NextJobs ==
  \/ \E sameMs \in BOOLEAN : JsStartJob("executeJob", sameMs)
  \/ \E sameMs \in BOOLEAN : JsStartJob("restoredProcess", sameMs)
  \/ \E j \in DOMAIN jobs, ok \in BOOLEAN : JsJobSettles(j, ok)
  \/ NativeTasks

SpecJobs == Init /\ [][NextJobs]_vars

\* ========================================================= processing task
ProcListener(ev, s) == [ev |-> ev, c |-> s]
Executing == "BackgroundProcessingExecuting"
Expired == "BackgroundProcessingExpired"
ListenersOf(ev) == {l \in listeners : l.ev = ev}

\* Background.ts cancelAllBackgroundProcessingTasks: removeAllListeners of the
\* two processing events (each tells the native module how many were removed)
\* and forgets the registered callbacks.  No native cancel is called.
CancelAllCalls ==
  <<RemoveListenersCall(Cardinality(ListenersOf(Executing))),
    RemoveListenersCall(Cardinality(ListenersOf(Expired)))>>
CancelAllListeners == listeners \ (ListenersOf(Executing) \cup ListenersOf(Expired))

\* BleManager.ts scheduleBackgroundProcessingTask (the Schedule button) up to
\* its await: cancelAllBackgroundProcessingTasks, then Background.ts
\* scheduleBackgroundProcessingTask adds its two listeners and calls the
\* native scheduleBackgroundProcessing.
JsSchedule(name) ==
  /\ Len(schedCalls) < MaxSchedules
  /\ LET s == Len(schedCalls) + 1 IN
       /\ listeners' = CancelAllListeners
                         \cup {ProcListener(Executing, s), ProcListener(Expired, s)}
       /\ registeredCallbacks' = EmptyDict
       /\ schedCalls' = Append(schedCalls, [n |-> name, st |-> "awaiting"])
       /\ callQueue' = callQueue \o CancelAllCalls \o
            <<AddListenerCall, AddListenerCall,
              Call("scheduleBackgroundProcessing", name, 0, s, FALSE)>>
  /\ UNCHANGED <<mq, bleVars, hasListeners, listenerCount, jsQueue, timerVars, taskVars,
                 submitted, instances, executingTasks, procJobs>>

\* Background.m scheduleBackgroundProcessing: submitTaskRequest succeeds or not.
NativeScheduleBackgroundProcessing(accepted) ==
  /\ NextCall("scheduleBackgroundProcessing")
  /\ LET c == Head(callQueue) IN
       IF accepted
       THEN /\ submitted' = submitted \cup {c.n}
            /\ jsQueue' = Append(jsQueue, Msg("schedResolved", c.n, c.p))
       ELSE /\ jsQueue' = Append(jsQueue, Msg("schedRejected", c.n, c.p))
            /\ UNCHANGED submitted
  /\ callQueue' = Tail(callQueue)
  /\ UNCHANGED <<mq, bleVars, emitterVars, timerVars, taskVars, instances, executingTasks,
                 registeredCallbacks, schedCalls, procJobs>>

\* Background.ts scheduleBackgroundProcessingTask after its await.
JsSchedResolved ==
  /\ NextMsg("schedResolved")
  /\ LET m == Head(jsQueue) IN
       /\ registeredCallbacks' = SetValue(registeredCallbacks, m.n, m.p)
       /\ schedCalls' = [schedCalls EXCEPT ![m.p].st = "fulfilled"]
  /\ jsQueue' = Tail(jsQueue)
  /\ UNCHANGED <<mq, bleVars, emitterVars, callQueue, timerVars, taskVars, submitted, instances,
                 executingTasks, procJobs>>

\* PLXEventEmitter.removeListener for the two listeners of schedule call s:
\* each one still registered is removed and reported to the native module.
RemovePairCalls(ls, s) ==
  (IF ProcListener(Executing, s) \in ls THEN <<RemoveListenersCall(1)>> ELSE <<>>)
  \o (IF ProcListener(Expired, s) \in ls THEN <<RemoveListenersCall(1)>> ELSE <<>>)
RemovePairExecutingOnly(ls, s) == ls \ {ProcListener(Executing, s)}
RemovePair(ls, s) == ls \ {ProcListener(Executing, s), ProcListener(Expired, s)}

\* Background.ts scheduleBackgroundProcessingTask, the catch clause.
JsSchedRejected ==
  /\ NextMsg("schedRejected")
  /\ LET s == Head(jsQueue).p IN
       /\ listeners' = RemovePair(listeners, s)
       /\ callQueue' = callQueue \o RemovePairCalls(listeners, s)
       /\ schedCalls' = [schedCalls EXCEPT ![s].st = "rejected"]
  /\ jsQueue' = Tail(jsQueue)
  /\ UNCHANGED <<mq, bleVars, hasListeners, listenerCount, timerVars, taskVars, submitted,
                 instances, executingTasks, registeredCallbacks, procJobs>>

\* BGProcessingTask setTaskCompletedWithSuccess, by the named code path.
SetTaskCompleted(is, i, result, by) ==
  [is EXCEPT ![i].reports = Append(@, [r |-> result, by |-> by])]
Live(i) == instances[i].reports = <<>>
Registered(i) ==
  /\ instances[i].id \in DOMAIN executingTasks
  /\ executingTasks[instances[i].id] = i

\* AppDelegate launch handler and backgroundTaskExecuting: whether the task is
\* handed to an observer.
CanReceiveIgnoringListeners(resolved, observing) == resolved
CanReceive(resolved, observing) == resolved /\ observing

\* The OS invokes the launch handler of a submitted request on the main
\* queue (one instance per identifier at a time).  resolved: the bridge
\* returns the PLXBackground module.
OsLaunchProcessingTask(id, resolved) ==
  /\ Len(instances) < MaxLaunches
  /\ id \in submitted
  /\ \A i \in DOMAIN instances : instances[i].id = id => ~Live(i)
  /\ submitted' = submitted \ {id}
  /\ LET i == Len(instances) + 1
         task == [id |-> id, module |-> resolved, handler |-> FALSE,
                  expired |-> FALSE, reports |-> <<>>] IN
       IF CanReceive(resolved, hasListeners)
       THEN /\ instances' = Append(instances, [task EXCEPT !.handler = TRUE])
            /\ executingTasks' = SetValue(executingTasks, id, i)
            /\ jsQueue' = Append(jsQueue, Msg(Executing, id, 0))
       ELSE /\ instances' = SetTaskCompleted(Append(instances, task), i, TRUE, "launch")
            /\ UNCHANGED <<executingTasks, jsQueue>>
  /\ UNCHANGED <<mq, bleVars, emitterVars, callQueue, timerVars, taskVars, registeredCallbacks,
                 schedCalls, procJobs>>

\* The expiration handler set by backgroundTaskExecuting, called by the OS
\* for an instance that has not been completed.
ProcExpiryObservedAlways(observing) == TRUE
ProcExpiryObserved(observing) == observing

OsExpireProcessingTask(i) ==
  /\ instances[i].handler /\ ~instances[i].expired /\ Live(i)
  /\ LET id == instances[i].id
         is == [instances EXCEPT ![i].expired = TRUE] IN
       IF ProcExpiryObserved(hasListeners)
       THEN /\ jsQueue' = Append(jsQueue, Msg(Expired, id, 0))
            /\ instances' = is
            /\ UNCHANGED executingTasks
       ELSE /\ IF id \in DOMAIN executingTasks
               THEN /\ executingTasks' = RemoveObject(executingTasks, id)
                    /\ instances' = SetTaskCompleted(is, executingTasks[id], TRUE, "expiry")
               ELSE /\ instances' = is
                    /\ UNCHANGED executingTasks
            /\ UNCHANGED jsQueue
  /\ UNCHANGED <<mq, bleVars, emitterVars, callQueue, timerVars, taskVars, submitted,
                 registeredCallbacks, schedCalls, procJobs>>

\* Background.m completeBackgroundProcessing.
ReportedResultAlwaysTrue(result) == TRUE
ReportedResult(result) == result

NativeCompleteBackgroundProcessing ==
  /\ NextCall("completeBackgroundProcessing")
  /\ LET c == Head(callQueue) IN
       IF c.n \in DOMAIN executingTasks
       THEN /\ executingTasks' = RemoveObject(executingTasks, c.n)
            /\ instances' = SetTaskCompleted(instances, executingTasks[c.n],
                                             ReportedResult(c.r), "complete")
       ELSE UNCHANGED <<executingTasks, instances>>
  /\ callQueue' = Tail(callQueue)
  /\ UNCHANGED <<mq, bleVars, emitterVars, jsQueue, timerVars, taskVars, submitted,
                 registeredCallbacks, schedCalls, procJobs>>

\* Background.ts completeBackgroundProcessingTask(name, result): removes the
\* listeners kept in registeredCallbacks[name], then calls the native module.
\* st is the JS state [ls, rc, calls] it works on.
CompleteProcessingTask(st, name, result) ==
  LET kept == name \in DOMAIN st.rc
      done == Call("completeBackgroundProcessing", name, 0, 0, result) IN
    [ls |-> IF kept THEN RemovePair(st.ls, st.rc[name]) ELSE st.ls,
     rc |-> IF kept THEN RemoveObject(st.rc, name) ELSE st.rc,
     calls |-> st.calls \o (IF kept THEN RemovePairCalls(st.ls, st.rc[name]) ELSE <<>>)
                 \o <<done>>]

JsState == [ls |-> listeners, rc |-> registeredCallbacks, calls |-> <<>>]

RECURSIVE SortedOwners(_)
SortedOwners(S) ==
  IF S = {} THEN <<>>
  ELSE LET x == CHOOSE a \in S : \A b \in S : a <= b IN <<x>> \o SortedOwners(S \ {x})

\* The JS thread emits BackgroundProcessingExecuting: every listener of the
\* event runs its taskExecutionCallback with the event's taskName, which
\* starts the job (establishConnection, downloadTicks, cancelAllConnections).
JsProcExecutingEvent ==
  /\ NextMsg(Executing)
  /\ LET owners == SortedOwners({l.c : l \in ListenersOf(Executing)}) IN
       procJobs' = procJobs \o
         [k \in DOMAIN owners |-> [n |-> Head(jsQueue).n, s |-> owners[k], st |-> "running"]]
  /\ jsQueue' = Tail(jsQueue)
  /\ UNCHANGED <<mq, bleVars, emitterVars, callQueue, timerVars, taskVars, submitted, instances,
                 executingTasks, registeredCallbacks, schedCalls>>

\* The job of the on-executing callback settles: both its then and its catch
\* call completeBackgroundProcessingTask(taskName, true).
JsProcJobSettles(j, ok) ==
  /\ procJobs[j].st = "running"
  /\ procJobs' = [procJobs EXCEPT ![j].st = IF ok THEN "finished" ELSE "failed"]
  /\ LET st == CompleteProcessingTask(JsState, procJobs[j].n, TRUE) IN
       /\ listeners' = st.ls
       /\ registeredCallbacks' = st.rc
       /\ callQueue' = callQueue \o st.calls
  /\ UNCHANGED <<mq, bleVars, hasListeners, listenerCount, jsQueue, timerVars, taskVars, submitted,
                 instances, executingTasks, schedCalls>>

\* The JS thread emits BackgroundProcessingExpired: every listener of the
\* event still registered when its turn comes runs its taskExpiredCallback,
\* which calls completeBackgroundProcessingTask(taskName, false).
RECURSIVE EmitExpired(_, _, _)
EmitExpired(owners, st, name) ==
  IF owners = <<>> THEN st
  ELSE EmitExpired(Tail(owners),
                   IF ProcListener(Expired, Head(owners)) \in st.ls
                   THEN CompleteProcessingTask(st, name, FALSE) ELSE st,
                   name)

JsProcExpiredEvent ==
  /\ NextMsg(Expired)
  /\ LET st == EmitExpired(SortedOwners({l.c : l \in ListenersOf(Expired)}),
                           JsState, Head(jsQueue).n) IN
       /\ listeners' = st.ls
       /\ registeredCallbacks' = st.rc
       /\ callQueue' = callQueue \o st.calls
  /\ jsQueue' = Tail(jsQueue)
  /\ UNCHANGED <<mq, bleVars, hasListeners, listenerCount, timerVars, taskVars, submitted,
                 instances, executingTasks, schedCalls, procJobs>>

NextProc ==
  \/ \E name \in RegisteredIdentifiers : JsSchedule(name)
  \/ NativeAddListener
  \/ NativeRemoveListeners
  \/ \E accepted \in BOOLEAN : NativeScheduleBackgroundProcessing(accepted)
  \/ JsSchedResolved
  \/ JsSchedRejected
  \/ \E id \in RegisteredIdentifiers, resolved \in BOOLEAN : OsLaunchProcessingTask(id, resolved)
  \/ \E i \in DOMAIN instances : OsExpireProcessingTask(i)
  \/ NativeCompleteBackgroundProcessing
  \/ JsProcExecutingEvent
  \/ JsProcExpiredEvent
  \/ \E j \in DOMAIN procJobs, ok \in BOOLEAN : JsProcJobSettles(j, ok)

SpecProc == Init /\ [][NextProc]_vars

\* ------------------------------------------- processing task, Background.ts API
\* The scheduling calls of Background.ts made by any caller, with launches
\* whose job runs to its end; expiry of a running instance is in SpecProc.
\* Background.ts scheduleBackgroundProcessingTask called as exported, up to its
\* await: adds its two listeners and calls the native
\* scheduleBackgroundProcessing.
JsScheduleTask(name) ==
  /\ Len(schedCalls) < MaxSchedules
  /\ LET s == Len(schedCalls) + 1 IN
       /\ listeners' = listeners \cup {ProcListener(Executing, s), ProcListener(Expired, s)}
       /\ schedCalls' = Append(schedCalls, [n |-> name, st |-> "awaiting"])
       /\ callQueue' = callQueue \o
            <<AddListenerCall, AddListenerCall,
              Call("scheduleBackgroundProcessing", name, 0, s, FALSE)>>
  /\ UNCHANGED <<mq, bleVars, hasListeners, listenerCount, jsQueue, timerVars, taskVars,
                 submitted, instances, executingTasks, registeredCallbacks, procJobs>>

\* The names whose scheduleBackgroundProcessingTask call has returned to its
\* caller (history, kept in the record of a cancel call).
Accepted == {schedCalls[f].n : f \in {g \in DOMAIN schedCalls : schedCalls[g].st = "fulfilled"}}

\* Background.ts cancelBackgroundProcessingTask(name): removes the listeners
\* kept in registeredCallbacks[name], then calls the native
\* cancelBackgroundProcess.  The call is recorded in schedCalls.
JsCancelTask(name) ==
  /\ Len(schedCalls) < MaxSchedules
  /\ LET kept == name \in DOMAIN registeredCallbacks
         k == Len(schedCalls) + 1 IN
       /\ listeners' = IF kept THEN RemovePair(listeners, registeredCallbacks[name])
                       ELSE listeners
       /\ registeredCallbacks' = IF kept THEN RemoveObject(registeredCallbacks, name)
                                 ELSE registeredCallbacks
       /\ callQueue' = callQueue
            \o (IF kept THEN RemovePairCalls(listeners, registeredCallbacks[name]) ELSE <<>>)
            \o <<Call("cancelBackgroundProcess", name, 0, k, FALSE)>>
       /\ schedCalls' = Append(schedCalls, [n |-> name, st |-> "cancelQueued",
                                            after |-> Accepted])
  /\ UNCHANGED <<mq, bleVars, hasListeners, listenerCount, jsQueue, timerVars, taskVars,
                 submitted, instances, executingTasks, procJobs>>

\* Background.ts cancelAllBackgroundProcessingTasks called as exported.  The
\* call is recorded in schedCalls.
JsCancelAll ==
  /\ Len(schedCalls) < MaxSchedules
  /\ listeners' = CancelAllListeners
  /\ registeredCallbacks' = EmptyDict
  /\ callQueue' = callQueue \o CancelAllCalls
  /\ schedCalls' = Append(schedCalls, [n |-> "", st |-> "cancelledAll",
                                       after |-> Accepted])
  /\ UNCHANGED <<mq, bleVars, hasListeners, listenerCount, jsQueue, timerVars, taskVars,
                 submitted, instances, executingTasks, procJobs>>

\* BGTaskScheduler cancelTaskRequestWithIdentifier.
CancelTaskRequest(sub, id) == sub \ {id}

\* Background.m cancelBackgroundProcess.
NativeCancelBackgroundProcess ==
  /\ NextCall("cancelBackgroundProcess")
  /\ LET c == Head(callQueue) IN
       /\ submitted' = CancelTaskRequest(submitted, c.n)
       /\ schedCalls' = [schedCalls EXCEPT ![c.p].st = "cancelled"]
  /\ callQueue' = Tail(callQueue)
  /\ UNCHANGED <<mq, bleVars, emitterVars, jsQueue, timerVars, taskVars, instances,
                 executingTasks, registeredCallbacks, procJobs>>

NextSched ==
  \/ \E name \in RegisteredIdentifiers : JsScheduleTask(name)
  \/ \E name \in RegisteredIdentifiers : JsCancelTask(name)
  \/ JsCancelAll
  \/ NativeCancelBackgroundProcess
  \/ NativeAddListener
  \/ NativeRemoveListeners
  \/ \E accepted \in BOOLEAN : NativeScheduleBackgroundProcessing(accepted)
  \/ JsSchedResolved
  \/ JsSchedRejected
  \/ \E id \in RegisteredIdentifiers, resolved \in BOOLEAN : OsLaunchProcessingTask(id, resolved)
  \/ NativeCompleteBackgroundProcessing
  \/ JsProcExecutingEvent
  \/ \E j \in DOMAIN procJobs : JsProcJobSettles(j, TRUE)

SpecSched == Init /\ [][NextSched]_vars

\* ============================================================ downloadTicks
\* buffer[0] = totalTicks on a Uint8Array(1): the request byte.
ToUint8(n) == n % 256

\* The 4 bytes of a notification frame carrying value v, little-endian, and
\* new DataView(bytes.buffer).getUint32(0, true).
Uint32Bytes(v) ==
  <<v % 256, (v \div 256) % 256, (v \div 65536) % 256, (v \div 16777216) % 256>>
GetUint32(bytes, littleEndian) ==
  IF littleEndian
  THEN bytes[1] + 256 * bytes[2] + 65536 * bytes[3] + 16777216 * bytes[4]
  ELSE bytes[4] + 256 * bytes[3] + 65536 * bytes[2] + 16777216 * bytes[1]

\* downloadTicks: if (totalTicks <= 0 || totalTicks >= 256) reject.
ValidTotalTicksUpTo256(totalTicks) == ~(totalTicks <= 0 \/ totalTicks > TicksLimit)
ValidTotalTicks(totalTicks) == ~(totalTicks <= 0 \/ totalTicks >= TicksLimit)

TotalTicksInputs == {-1, 0, 1, 2, 3, TicksLimit - 1, TicksLimit, TicksLimit + 1}

\* A promise settles once: resolve / reject after that change nothing.
Settle(d, outcome, reason) ==
  IF d.st = "pending"
  THEN [d EXCEPT !.st = outcome, !.reason = reason]
  ELSE d

\* subscription.remove(): the listener is gone, events not yet delivered to
\* it are dropped.
RemoveMonitor(d) == [d EXCEPT !.monitor = "removed", !.rx = <<>>]

\* downloadTicks(device, totalTicks, onTick), the promise executor: argument
\* check, monitorCharacteristicForService, then the request write.
DownloadTicks(totalTicks) ==
  /\ dl.st = "none"
  /\ LET d == [st |-> "pending", total |-> totalTicks, receivedTicks |-> 0,
               monitor |-> "none", write |-> "none", request |-> 0,
               onTicks |-> <<>>, rx |-> <<>>, sent |-> 0, errors |-> 0,
               reason |-> "", late |-> FALSE] IN
       dl' = IF ValidTotalTicks(totalTicks)
             THEN [d EXCEPT !.monitor = "active", !.write = "pending",
                            !.request = ToUint8(totalTicks)]
             ELSE Settle(d, "rejected", "invalid")
  /\ UNCHANGED <<scan, timerVars, emitterVars, bridgeVars, taskVars, procVars, drain, conn>>

\* The peripheral notifies its next value (a counter) on the rx characteristic;
\* the frame is queued for the monitor callback.
PeripheralNotifies ==
  /\ dl.st # "none" /\ dl.monitor = "active"
  /\ dl.sent < dl.request + ExtraTicks
  /\ Len(dl.rx) < MaxRx
  /\ dl' = [dl EXCEPT !.sent = @ + 1,
                      !.rx = Append(@, [error |-> FALSE, value |-> Uint32Bytes(dl.sent + 1)])]
  /\ UNCHANGED <<scan, timerVars, emitterVars, bridgeVars, taskVars, procVars, drain, conn>>

\* The transport reports an error on the notification channel.
MonitorFails ==
  /\ dl.st # "none" /\ dl.monitor = "active"
  /\ dl.errors < MaxErrors
  /\ Len(dl.rx) < MaxRx
  /\ dl' = [dl EXCEPT !.errors = @ + 1,
                      !.rx = Append(@, [error |-> TRUE, value |-> <<>>])]
  /\ UNCHANGED <<scan, timerVars, emitterVars, bridgeVars, taskVars, procVars, drain, conn>>

\* if (receivedTicks === totalTicks)
TicksCompleteNever(receivedTicks, totalTicks) == FALSE
TicksComplete(receivedTicks, totalTicks) == receivedTicks = totalTicks

\* downloadTicks, the monitor callback (error, characteristic).  The field
\* late records an onTick call made after the promise had settled.
MonitorCallback ==
  /\ dl.st # "none" /\ dl.monitor = "active" /\ dl.rx # <<>>
  /\ LET e == Head(dl.rx)
         d == [dl EXCEPT !.rx = Tail(@)]
         n == dl.receivedTicks + 1
         t == [d EXCEPT !.receivedTicks = n,
                        !.onTicks = Append(@, <<n, dl.total, GetUint32(e.value, TRUE)>>),
                        !.late = (dl.st # "pending")] IN
       dl' = IF e.error THEN Settle(d, "rejected", "notify")
             ELSE IF TicksComplete(n, dl.total)
                  THEN Settle(RemoveMonitor(t), "resolved", "")
                  ELSE t
  /\ UNCHANGED <<scan, timerVars, emitterVars, bridgeVars, taskVars, procVars, drain, conn>>

\* writeCharacteristicWithoutResponseForService settles: then(log, error =>
\* { subscription.remove(); reject(error) }).
WriteSettles(ok) ==
  /\ dl.st # "none" /\ dl.write = "pending"
  /\ dl' = IF ok THEN [dl EXCEPT !.write = "ok"]
           ELSE Settle(RemoveMonitor([dl EXCEPT !.write = "failed"]), "rejected", "write")
  /\ UNCHANGED <<scan, timerVars, emitterVars, bridgeVars, taskVars, procVars, drain, conn>>

NextTicks ==
  \/ \E totalTicks \in TotalTicksInputs : DownloadTicks(totalTicks)
  \/ PeripheralNotifies
  \/ MonitorFails
  \/ MonitorCallback
  \/ \E ok \in BOOLEAN : WriteSettles(ok)

SpecTicks == Init /\ [][NextTicks]_vars

\* ====================================================== waitForPendingTicks
\* Time is counted in units of drain.clock.  The bridge is taken to have no
\* latency: the clock advances only when both queues are empty and every
\* work block that is due has run (Tick).

\* Background.setTimeout as called inside waitForPendingTicks: st is the JS
\* state [d, ts, next, calls] it works on.  due records when the timer
\* started now is to fire.
StartIdleTimer(st) ==
  [d |-> [st.d EXCEPT !.timeout = st.next,
                      !.due = Append(@, st.d.clock + TickTimeout)],
   ts |-> Append(st.ts, [id |-> st.next, st |-> "waiting", cleared |-> FALSE]),
   next |-> NextTimeoutId(st.next),
   calls |-> Append(st.calls, Call("setTimeout", 0, st.next, Len(st.ts) + 1, FALSE))]

\* if (subscriptions.timeout != null) Background.clearTimeout(subscriptions.timeout)
ClearIdleTimer(st) ==
  IF st.d.timeout = NullTimeout THEN st
  ELSE [st EXCEPT !.calls = Append(@, Call("clearTimeout", 0, st.d.timeout, 0, FALSE)),
                  !.ts = [k \in DOMAIN st.ts |->
                           IF st.ts[k].id = st.d.timeout /\ st.ts[k].st = "waiting"
                           THEN [st.ts[k] EXCEPT !.cleared = TRUE] ELSE st.ts[k]]]

\* waitForPendingTicks clearSubscriptions.
ClearSubscriptions(st) ==
  LET m == IF st.d.monitor
           THEN [st EXCEPT !.d.subscribed = FALSE, !.d.monitor = FALSE]
           ELSE st IN
    [ClearIdleTimer(m) EXCEPT !.d.timeout = NullTimeout]

DrainState == [d |-> drain, ts |-> timeouts, next |-> nextTimeoutId, calls |-> <<>>]

\* resolve() / reject(error) of the waitForPendingTicks promise.
SettleDrain(d, outcome) ==
  IF d.st = "pending" THEN [d EXCEPT !.st = outcome, !.settledAt = d.clock] ELSE d

\* waitForPendingTicks(device, tickTimeout, onTick), the promise executor:
\* starts the tick timeout and monitors the characteristic.
WaitForPendingTicks ==
  /\ drain.st = "none"
  /\ LET d == [st |-> "pending", clock |-> 0, timeout |-> NullTimeout, due |-> <<>>,
               monitor |-> TRUE, subscribed |-> TRUE, onTicks |-> 0, last |-> 0,
               sent |-> 0, errors |-> 0, settledAt |-> 0]
         st == StartIdleTimer([DrainState EXCEPT !.d = d]) IN
       /\ drain' = st.d
       /\ timeouts' = st.ts
       /\ nextTimeoutId' = st.next
       /\ callQueue' = callQueue \o st.calls
  /\ UNCHANGED <<scan, mq, pendingTimers, blocks, emitterVars, jsQueue, taskVars, procVars, dl, conn>>

\* The peripheral notifies a value / the transport reports an error: the
\* event is queued for the JS thread.
DrainNotified(error) ==
  /\ drain.st # "none" /\ drain.subscribed
  /\ IF error THEN drain.errors < MaxErrors ELSE drain.sent < MaxDrainValues
  /\ drain' = IF error THEN [drain EXCEPT !.errors = @ + 1]
              ELSE [drain EXCEPT !.sent = @ + 1]
  /\ jsQueue' = Append(jsQueue, Msg(IF error THEN "monitorError" ELSE "monitorValue", 0, 0))
  /\ UNCHANGED <<scan, mq, timerVars, emitterVars, callQueue, taskVars, procVars, dl, conn>>

\* waitForPendingTicks, the monitor callback with a value: onTick, then the
\* tick timeout is restarted.  An event for a removed subscription is dropped.
DrainMonitorValue ==
  /\ NextMsg("monitorValue")
  /\ LET ticked == [drain EXCEPT !.onTicks = @ + 1, !.last = drain.clock]
         st == IF drain.subscribed
               THEN StartIdleTimer(ClearIdleTimer([DrainState EXCEPT !.d = ticked]))
               ELSE DrainState IN
       /\ drain' = st.d
       /\ timeouts' = st.ts
       /\ nextTimeoutId' = st.next
       /\ callQueue' = callQueue \o st.calls
  /\ jsQueue' = Tail(jsQueue)
  /\ UNCHANGED <<scan, mq, pendingTimers, blocks, emitterVars, taskVars, procVars, dl, conn>>

\* waitForPendingTicks, the monitor callback with an error:
\* subscriptions.monitor = null; clearSubscriptions(); reject(error).
DrainMonitorError ==
  /\ NextMsg("monitorError")
  /\ LET st == IF drain.subscribed
               THEN ClearSubscriptions([DrainState EXCEPT !.d.monitor = FALSE])
               ELSE DrainState IN
       /\ drain' = IF drain.subscribed THEN SettleDrain(st.d, "rejected") ELSE drain
       /\ timeouts' = st.ts
       /\ callQueue' = callQueue \o st.calls
  /\ jsQueue' = Tail(jsQueue)
  /\ UNCHANGED <<scan, mq, pendingTimers, blocks, nextTimeoutId, emitterVars, taskVars, procVars, dl, conn>>

\* The callback given to Background.setTimeout by waitForPendingTicks, run
\* when the native promise of a timer resolves:
\* subscriptions.timeout = null; clearSubscriptions(); resolve().
DrainTimerResolved ==
  /\ NextMsg("timerResolved")
  /\ LET ran == [timeouts EXCEPT ![Head(jsQueue).p].st = "ran"]
         st == ClearSubscriptions([DrainState EXCEPT !.ts = ran,
                                                     !.d.timeout = NullTimeout]) IN
       /\ drain' = SettleDrain(st.d, "resolved")
       /\ timeouts' = st.ts
       /\ callQueue' = callQueue \o st.calls
  /\ jsQueue' = Tail(jsQueue)
  /\ UNCHANGED <<scan, mq, pendingTimers, blocks, nextTimeoutId, emitterVars, taskVars, procVars, dl, conn>>

\* dispatch_after: the work block b may run once its delay has passed.
Due(b) == drain.clock >= drain.due[blocks[b].p]

\* One unit of time passes.
Tick ==
  /\ drain.st # "none"
  /\ drain.clock < MaxClock
  /\ callQueue = <<>> /\ jsQueue = <<>>
  /\ \A b \in DOMAIN blocks : blocks[b].st = "scheduled" => ~Due(b)
  /\ drain' = [drain EXCEPT !.clock = @ + 1]
  /\ UNCHANGED <<scan, timerVars, emitterVars, bridgeVars, taskVars, procVars, dl, conn>>

NextDrain ==
  \/ WaitForPendingTicks
  \/ \E error \in BOOLEAN : DrainNotified(error)
  \/ DrainMonitorValue
  \/ DrainMonitorError
  \/ DrainTimerResolved
  \/ NativeSetTimeout
  \/ NativeClearTimeout
  \/ \E b \in DOMAIN blocks : Due(b) /\ TimerFire(b)
  \/ Tick

SpecDrain == Init /\ [][NextDrain]_vars

\* ========================================================= BLE connection
\* conn.calls holds one record per establishConnection call: pc is the await
\* it is suspended at.  conn.observers holds the calls whose
\* device.onDisconnected subscription is registered.
RadioStates == {"Unknown", "PoweredOff", "PoweredOn"}

\* manager.connectedDevices([serviceUUID])
ConnectedDevices == IF conn.connected THEN <<"device">> ELSE <<>>

\* establishConnection: if (connectedDevices.length > 0) use it, else scan.
ScanAlways(connectedDevices) == TRUE
ScanNeeded(connectedDevices) == ~(Len(connectedDevices) > 0)

\* The promise of the async function settles.
SettleCall(c, outcome) == [c EXCEPT !.st = outcome, !.pc = "done"]

\* connectToDevice up to its first await: registers the disconnect
\* subscription, then asks device.isConnected().
ConnectToDevice(cn, c) ==
  [cn EXCEPT !.observers = @ \cup {c},
             !.calls[c].registered = TRUE,
             !.calls[c].registeredAt = cn.disconnects,
             !.calls[c].pc = "isConnected"]

\* The BLE radio changes state.
RadioChanges(state) ==
  /\ conn.radio # state
  /\ conn' = [conn EXCEPT !.radio = state]
  /\ UNCHANGED <<scan, timerVars, emitterVars, bridgeVars, taskVars, procVars, dl, drain>>

\* establishConnection(onDisconnected) up to its first await:
\* waitForBLEState(State.PoweredOn) subscribes to the radio state.
EstablishConnection(hasCallback) ==
  /\ Len(conn.calls) < MaxEstablish
  /\ conn' = [conn EXCEPT !.calls = Append(@,
                [st |-> "pending", pc |-> "waitForBLEState", callback |-> hasCallback,
                 reportedOn |-> FALSE, found |-> "unknown", scanned |-> FALSE,
                 registered |-> FALSE, registeredAt |-> 0, invoked |-> 0])]
  /\ UNCHANGED <<scan, timerVars, emitterVars, bridgeVars, taskVars, procVars, dl, drain>>

\* waitForBLEState, the onStateChange listener (called with the current state
\* and on every change): on PoweredOn it unsubscribes and resolves, and
\* establishConnection goes on to query the connected devices.
StateListener(c) ==
  /\ conn.calls[c].pc = "waitForBLEState"
  /\ conn.radio = "PoweredOn"
  /\ conn' = [conn EXCEPT !.calls[c].reportedOn = TRUE, !.calls[c].pc = "connectedDevices"]
  /\ UNCHANGED <<scan, timerVars, emitterVars, bridgeVars, taskVars, procVars, dl, drain>>

\* manager.connectedDevices settles: failure rejects establishConnection; a
\* non-empty list goes to connectToDevice with its first device, an empty one
\* to scanDevice(5000).
ConnectedDevicesSettles(c, ok) ==
  /\ conn.calls[c].pc = "connectedDevices"
  /\ LET q == [conn EXCEPT !.calls[c].found = IF ConnectedDevices = <<>> THEN "none"
                                               ELSE Head(ConnectedDevices)] IN
       conn' =
         IF ~ok THEN [conn EXCEPT !.calls[c] = SettleCall(@, "rejected")]
         ELSE IF ScanNeeded(ConnectedDevices)
              THEN [q EXCEPT !.calls[c].scanned = TRUE, !.calls[c].pc = "scanDevice"]
              ELSE ConnectToDevice(q, c)
  /\ UNCHANGED <<scan, timerVars, emitterVars, bridgeVars, taskVars, procVars, dl, drain>>

\* scanDevice settles: with a device of the target service, or with the scan
\* timeout / a scan error.
ScanSettles(c, ok) ==
  /\ conn.calls[c].pc = "scanDevice"
  /\ conn' = IF ok THEN ConnectToDevice(conn, c)
             ELSE [conn EXCEPT !.calls[c] = SettleCall(@, "rejected")]
  /\ UNCHANGED <<scan, timerVars, emitterVars, bridgeVars, taskVars, procVars, dl, drain>>

\* connectToDevice: device.isConnected() settles, then device.connect or,
\* already connected, discoverAllServicesAndCharacteristics.
IsConnectedSettles(c, ok) ==
  /\ conn.calls[c].pc = "isConnected"
  /\ conn' = IF ~ok THEN [conn EXCEPT !.calls[c] = SettleCall(@, "rejected")]
             ELSE [conn EXCEPT !.calls[c].pc = IF conn.connected THEN "discover" ELSE "connect"]
  /\ UNCHANGED <<scan, timerVars, emitterVars, bridgeVars, taskVars, procVars, dl, drain>>

\* connectToDevice: device.connect({timeout}) settles.
ConnectSettles(c, ok) ==
  /\ conn.calls[c].pc = "connect"
  /\ conn' = IF ok THEN [conn EXCEPT !.connected = TRUE, !.calls[c].pc = "discover"]
             ELSE [conn EXCEPT !.calls[c] = SettleCall(@, "rejected")]
  /\ UNCHANGED <<scan, timerVars, emitterVars, bridgeVars, taskVars, procVars, dl, drain>>

\* connectToDevice: discoverAllServicesAndCharacteristics settles;
\* establishConnection returns the device.
DiscoverSettles(c, ok) ==
  /\ conn.calls[c].pc = "discover"
  /\ conn' = [conn EXCEPT !.calls[c] = SettleCall(@, IF ok THEN "resolved" ELSE "rejected")]
  /\ UNCHANGED <<scan, timerVars, emitterVars, bridgeVars, taskVars, procVars, dl, drain>>

\* connectToDevice, the onDisconnected listener of call c: subscription.remove()
\* and, if given, onDisconnected(error).
KeepObserver(observers, c) == observers
RemoveObserver(observers, c) == observers \ {c}

RECURSIVE DisconnectedListeners(_, _)
DisconnectedListeners(cn, cs) ==
  IF cs = <<>> THEN cn
  ELSE LET c == Head(cs) IN
         DisconnectedListeners(
           [cn EXCEPT !.observers = RemoveObserver(@, c),
                      !.calls[c].invoked = IF cn.calls[c].callback THEN @ + 1 ELSE @],
           Tail(cs))

\* The device disconnects (link lost, or cancelConnection): the disconnect
\* event runs every registered listener.
DeviceDisconnects ==
  /\ conn.connected
  /\ conn.disconnects < MaxDisconnects
  /\ conn' = DisconnectedListeners(
               [conn EXCEPT !.connected = FALSE, !.disconnects = @ + 1],
               SortedOwners(conn.observers))
  /\ UNCHANGED <<scan, timerVars, emitterVars, bridgeVars, taskVars, procVars, dl, drain>>

NextConn ==
  \/ \E state \in RadioStates : RadioChanges(state)
  \/ \E hasCallback \in BOOLEAN : EstablishConnection(hasCallback)
  \/ \E c \in DOMAIN conn.calls : StateListener(c)
  \/ \E c \in DOMAIN conn.calls, ok \in BOOLEAN : ConnectedDevicesSettles(c, ok)
  \/ \E c \in DOMAIN conn.calls, ok \in BOOLEAN : ScanSettles(c, ok)
  \/ \E c \in DOMAIN conn.calls, ok \in BOOLEAN : IsConnectedSettles(c, ok)
  \/ \E c \in DOMAIN conn.calls, ok \in BOOLEAN : ConnectSettles(c, ok)
  \/ \E c \in DOMAIN conn.calls, ok \in BOOLEAN : DiscoverSettles(c, ok)
  \/ DeviceDisconnects

SpecConn == Init /\ [][NextConn]_vars

\* =============================================================== scanDevice
\* establishConnection: scanDevice(5000)
ScanTimeout == 5000

\* if (subscriptions.timeout): a number is truthy unless it is 0; null is not.
Truthy(timeout) == timeout # NullTimeout /\ timeout # 0

ScanState == [d |-> scan, ts |-> timeouts, calls |-> <<>>]

\* scanDevice clearSubscriptions: manager.stopDeviceScan(), then the timer is
\* cleared if subscriptions.timeout is truthy.  st is the JS state
\* [d, ts, calls] it works on.
ScanClearSubscriptions(st) ==
  LET stopped == [st EXCEPT !.d.scanning = FALSE] IN
    IF Truthy(st.d.timeout)
    THEN [stopped EXCEPT
            !.calls = Append(@, Call("clearTimeout", 0, st.d.timeout, 0, FALSE)),
            !.ts = [k \in DOMAIN st.ts |->
                     IF st.ts[k].id = st.d.timeout /\ st.ts[k].st = "waiting"
                     THEN [st.ts[k] EXCEPT !.cleared = TRUE] ELSE st.ts[k]],
            !.d.timeout = NullTimeout]
    ELSE stopped

\* resolve(scannedDevice) / reject(error) of the scanDevice promise.
SettleScan(d, outcome, reason) ==
  IF d.st = "pending" THEN [d EXCEPT !.st = outcome, !.reason = reason] ELSE d

\* scanDevice(timeout), the promise executor: starts the timeout timer if
\* timeout > 0, then starts the device scan.  p is the timeouts record of
\* the timer.
ScanDevice(timeout) ==
  /\ scan.st = "none"
  /\ Len(timeouts) < MaxTimers
  /\ IF timeout > 0
     THEN /\ scan' = [scan EXCEPT !.st = "pending", !.scanning = TRUE,
                                  !.timeout = nextTimeoutId, !.p = Len(timeouts) + 1]
          /\ nextTimeoutId' = NextTimeoutId(nextTimeoutId)
          /\ timeouts' = Append(timeouts,
                           [id |-> nextTimeoutId, st |-> "waiting", cleared |-> FALSE])
          /\ callQueue' = Append(callQueue,
                           Call("setTimeout", 0, nextTimeoutId, Len(timeouts) + 1, FALSE))
     ELSE /\ scan' = [scan EXCEPT !.st = "pending", !.scanning = TRUE]
          /\ UNCHANGED <<nextTimeoutId, timeouts, callQueue>>
  /\ UNCHANGED <<mq, pendingTimers, blocks, emitterVars, jsQueue, taskVars, procVars,
                 dl, drain, conn>>

\* The scan reports to JS: a device advertising the target service
\* ("match"), another device ("other") or a scan error ("error").
ScanKinds == {"match", "other", "error"}
ScanNotified(kind) ==
  /\ scan.scanning
  /\ scan.sent < MaxScanEvents
  /\ scan' = [scan EXCEPT !.sent = @ + 1]
  /\ jsQueue' = Append(jsQueue, Msg("scanResult", kind, 0))
  /\ UNCHANGED <<mq, timerVars, emitterVars, callQueue, taskVars, procVars, dl, drain, conn>>

\* scanDevice, the startDeviceScan listener.  A report for a scan that was
\* stopped is dropped.
ScanCallback ==
  /\ NextMsg("scanResult")
  /\ LET kind == Head(jsQueue).n
         st == IF scan.scanning /\ kind # "other"
               THEN ScanClearSubscriptions(ScanState) ELSE ScanState IN
       /\ scan' = IF ~scan.scanning \/ kind = "other" THEN scan
                  ELSE IF kind = "error" THEN SettleScan(st.d, "rejected", "error")
                  ELSE SettleScan(st.d, "resolved", "match")
       /\ timeouts' = st.ts
       /\ callQueue' = callQueue \o st.calls
  /\ jsQueue' = Tail(jsQueue)
  /\ UNCHANGED <<mq, pendingTimers, blocks, nextTimeoutId, emitterVars, taskVars, procVars,
                 dl, drain, conn>>

\* The callback given to Background.setTimeout by scanDevice, run when the
\* native promise of its timer resolves: subscriptions.timeout = null;
\* clearSubscriptions(); reject(Scan timeout).
ScanTimerResolved ==
  /\ NextMsg("timerResolved")
  /\ Head(jsQueue).p = scan.p
  /\ LET ran == [timeouts EXCEPT ![scan.p].st = "ran"]
         st == ScanClearSubscriptions([ScanState EXCEPT !.ts = ran,
                                                        !.d.timeout = NullTimeout]) IN
       /\ scan' = SettleScan(st.d, "rejected", "timeout")
       /\ timeouts' = st.ts
       /\ callQueue' = callQueue \o st.calls
  /\ jsQueue' = Tail(jsQueue)
  /\ UNCHANGED <<mq, pendingTimers, blocks, nextTimeoutId, emitterVars, taskVars, procVars,
                 dl, drain, conn>>

\* The native promise of a timer started by other code (delay) resolves.
OtherTimerResolved ==
  /\ NextMsg("timerResolved")
  /\ Head(jsQueue).p # scan.p
  /\ JsTimerResolved

\* scanDevice next to other users of Background.setTimeout.
NextScan ==
  \/ \E timeout \in {0, ScanTimeout} : ScanDevice(timeout)
  \/ \E kind \in ScanKinds : ScanNotified(kind)
  \/ ScanCallback
  \/ ScanTimerResolved
  \/ JsSetTimeout
  \/ OtherTimerResolved
  \/ NativeSetTimeout
  \/ NativeClearTimeout
  \/ \E b \in DOMAIN blocks : TimerFire(b)

SpecScan == Init /\ [][NextScan]_vars

\* ------------------------------------------- callers of establishConnection
\* App.tsx, the Connect button: disabled={device != null || connecting}.
\* connecting is set while the button's call is pending; device is set when
\* it resolved and reset by its onDisconnected callback.
ConnectDisabled ==
  \E c \in DOMAIN conn.calls :
    /\ conn.calls[c].callback
    /\ \/ conn.calls[c].st = "pending"
       \/ conn.calls[c].st = "resolved" /\ conn.calls[c].invoked = 0

\* The Connect button is pressed: establishConnection(onDisconnected).
ConnectPressed ==
  /\ ~ConnectDisabled
  /\ EstablishConnection(TRUE)

\* The on-executing callback of the processing task starts its job:
\* establishConnection() with no callback, whatever the UI is doing.
ProcessingJobConnects == EstablishConnection(FALSE)

NextCallers ==
  \/ ConnectPressed
  \/ ProcessingJobConnects
  \/ \E state \in RadioStates : RadioChanges(state)
  \/ \E c \in DOMAIN conn.calls : StateListener(c)
  \/ \E c \in DOMAIN conn.calls, ok \in BOOLEAN : ConnectedDevicesSettles(c, ok)
  \/ \E c \in DOMAIN conn.calls, ok \in BOOLEAN : ScanSettles(c, ok)
  \/ \E c \in DOMAIN conn.calls, ok \in BOOLEAN : IsConnectedSettles(c, ok)
  \/ \E c \in DOMAIN conn.calls, ok \in BOOLEAN : ConnectSettles(c, ok)
  \/ \E c \in DOMAIN conn.calls, ok \in BOOLEAN : DiscoverSettles(c, ok)
  \/ DeviceDisconnects

SpecCallers == Init /\ [][NextCallers]_vars

\* ------------------------------------------------- method queue, statement level
\* PLXBackground does not override methodQueue, so its exported methods run
\* on the module's own serial queue, while the launch handler, the
\* expiration handlers and the timer work units run on the main queue: a
\* main-queue handler can run between two statements of an exported method.
\*
\* Background.m completeBackgroundProcessing, first statement:
\* task = [executingTasks objectForKey:taskName] (0 stands for nil).
CompleteRead ==
  /\ NextCall("completeBackgroundProcessing")
  /\ mq = Idle
  /\ LET name == Head(callQueue).n IN
       mq' = [pc |-> "read",
              val |-> IF name \in DOMAIN executingTasks THEN executingTasks[name] ELSE 0]
  /\ UNCHANGED <<bleVars, emitterVars, callQueue, jsQueue, timerVars, taskVars, procVars>>

\* Background.m completeBackgroundProcessing, the rest:
\* if (task != nil) { removeObjectForKey; setTaskCompletedWithSuccess }.
CompleteWrite ==
  /\ NextCall("completeBackgroundProcessing")
  /\ mq.pc = "read"
  /\ LET c == Head(callQueue) IN
       IF mq.val # 0
       THEN /\ executingTasks' = RemoveObject(executingTasks, c.n)
            /\ instances' = SetTaskCompleted(instances, mq.val,
                                             ReportedResult(c.r), "complete")
       ELSE UNCHANGED <<executingTasks, instances>>
  /\ mq' = Idle
  /\ callQueue' = Tail(callQueue)
  /\ UNCHANGED <<bleVars, emitterVars, jsQueue, timerVars, taskVars, submitted,
                 registeredCallbacks, schedCalls, procJobs>>

\* The processing task with completeBackgroundProcessing taken statement by
\* statement.
NextRace ==
  \/ \E name \in RegisteredIdentifiers : JsSchedule(name)
  \/ NativeAddListener
  \/ NativeRemoveListeners
  \/ \E accepted \in BOOLEAN : NativeScheduleBackgroundProcessing(accepted)
  \/ JsSchedResolved
  \/ JsSchedRejected
  \/ \E id \in RegisteredIdentifiers, resolved \in BOOLEAN : OsLaunchProcessingTask(id, resolved)
  \/ \E i \in DOMAIN instances : OsExpireProcessingTask(i)
  \/ CompleteRead
  \/ CompleteWrite
  \/ JsProcExecutingEvent
  \/ JsProcExpiredEvent
  \/ \E j \in DOMAIN procJobs, ok \in BOOLEAN : JsProcJobSettles(j, ok)

SpecRace == Init /\ [][NextRace]_vars

\* ------------------------------------- processing task next to a restored job
\* The app relaunched in the background by the OS: no button is pressed, so
\* no scheduling call is made in this run; a request submitted in an earlier
\* run may be launched, and the BLE stack may hand over a restored state.
\*
\* BleManager.ts: the manager is constructed once, so its restoreStateFunction
\* starts restoredProcess (which registers a BackgroundTaskExpired listener)
\* at most once in a run of the app.
RestoredProcessStarts ==
  /\ jobs = <<>>
  /\ JsStartJob("restoredProcess", FALSE)

\* What a claim about completion takes for granted: the method queue and the
\* JS thread work off their queues, a started job settles, and the OS
\* expires what is not given back.
RestoredProgress ==
  \/ \E j \in DOMAIN jobs, ok \in BOOLEAN : JsJobSettles(j, ok)
  \/ NativeTasks
  \/ \E i \in DOMAIN instances : OsExpireProcessingTask(i)
  \/ JsProcExecutingEvent
  \/ JsProcExpiredEvent

NextRestored ==
  \/ RestoredProcessStarts
  \/ \E id \in RegisteredIdentifiers, resolved \in BOOLEAN : OsLaunchProcessingTask(id, resolved)
  \/ RestoredProgress

SpecRestored == Init /\ [][NextRestored]_vars

\* ------------------------------------------ processing task, two task names
\* Background.scheduleBackgroundProcessingTask(taskName, ...) takes any task
\* name; the OS launches only identifiers registered by the AppDelegate.
ScheduleNames == RegisteredIdentifiers \cup {"OtherTask"}

NextNames ==
  \/ \E name \in ScheduleNames : JsScheduleTask(name)
  \/ NativeAddListener
  \/ NativeRemoveListeners
  \/ \E accepted \in BOOLEAN : NativeScheduleBackgroundProcessing(accepted)
  \/ JsSchedResolved
  \/ JsSchedRejected
  \/ \E id \in RegisteredIdentifiers, resolved \in BOOLEAN : OsLaunchProcessingTask(id, resolved)
  \/ \E i \in DOMAIN instances : OsExpireProcessingTask(i)
  \/ NativeCompleteBackgroundProcessing
  \/ JsProcExecutingEvent
  \/ JsProcExpiredEvent
  \/ \E j \in DOMAIN procJobs : JsProcJobSettles(j, TRUE)

SpecNames == Init /\ [][NextNames]_vars

\* ------------------------------------------------------------ C1
\* C1: a timer that was cleared (Background.clearTimeout) before its work
\* unit had run never has its callback executed afterwards.
C1_ClearedNeverRuns ==
  \A k \in DOMAIN timeouts : timeouts[k].cleared => timeouts[k].st # "ran"

\* ------------------------------------------------------------ C2
\* C2: at most one scheduled work unit exists per timer id, and every
\* scheduled work unit is the one recorded in pendingTimers under its id.
C2_OneWorkUnitPerId ==
  /\ \A a, b \in DOMAIN blocks :
       (blocks[a].st = "scheduled" /\ blocks[b].st = "scheduled"
          /\ blocks[a].id = blocks[b].id) => a = b
  /\ \A b \in DOMAIN blocks :
       blocks[b].st = "scheduled" =>
         (blocks[b].id \in DOMAIN pendingTimers /\ pendingTimers[blocks[b].id] = b)
  /\ \A id \in DOMAIN pendingTimers : blocks[pendingTimers[id]].st = "scheduled"

C2_Witness ==
  \E a, b, c \in DOMAIN blocks :
    /\ blocks[a].st = "ran" /\ blocks[b].st = "cancelled" /\ blocks[c].st = "scheduled"
    /\ pendingTimers = [x \in {blocks[c].id} |-> c]

\* ------------------------------------------------------------ C3
Tracked(t) ==
  /\ tokens[t].n \in DOMAIN pendingBackgroundTasks
  /\ pendingBackgroundTasks[tokens[t].n] = t

\* C3: startBackgroundTask(name) followed immediately by endBackgroundTask(name)
\* leaves no entry for name and the granted window given back to the OS; a
\* granted startBackgroundTask records the new window, active, under its name,
\* whatever happened to earlier windows of that name.
C3_BeginEndNoResidue ==
  /\ lastOp.op = "endAfterStart" =>
       /\ lastOp.n \notin DOMAIN pendingBackgroundTasks
       /\ tokens[lastOp.t].st = "released"
  /\ lastOp.op = "start" =>
       /\ Tracked(lastOp.t)
       /\ tokens[lastOp.t].n = lastOp.n
       /\ tokens[lastOp.t].st = "active"

C3_Witness ==
  /\ lastOp.op = "start"
  /\ \E t \in 1..(lastOp.t - 1) :
       /\ tokens[t].n = lastOp.n
       /\ tokens[t].st = "released" /\ tokens[t].by = "end" /\ ~tokens[t].expired

C5_RefusalSurfaced ==
  \A c \in DOMAIN startCalls :
    startCalls[c].native = "rejected" =>
      /\ startCalls[c].st = "rejected"
      /\ TaskListener(c) \notin listeners
      /\ \A t \in DOMAIN tokens : tokens[t].c # c

\* ------------------------------------------------------------ C6
\* C6: once a job (executeJob, restoredProcess) has finished, with its BLE
\* steps succeeded or failed, endBackgroundTask has been called for the task
\* it began.
C6_JobReleasesToken ==
  \A j \in DOMAIN jobs : jobs[j].st # "running" => startCalls[jobs[j].c].ended

\* ------------------------------------------------------------ C7
\* C7: once a started task has reached a terminal path (endBackgroundTask
\* called for it, or the grant refused), its BackgroundTaskExpired listener is
\* no longer registered.
C7_ListenerRemoved ==
  \A c \in DOMAIN startCalls :
    (startCalls[c].ended \/ startCalls[c].native = "rejected") =>
      TaskListener(c) \notin listeners

\* ------------------------------------------------------------ C8
\* C8: when the OS invokes the processing task and no observer can receive it
\* (the module is not resolved, or hasListeners is false), the new instance is
\* completed with success=true in that step, executingTasks is left as it was
\* and no event is emitted.
C8_NoObserverLaunch ==
  [][Len(instances') > Len(instances) =>
       LET i == Len(instances') IN
         (~instances'[i].module \/ ~hasListeners) =>
           /\ instances'[i].reports = <<[r |-> TRUE, by |-> "launch"]>>
           /\ executingTasks' = executingTasks
           /\ jsQueue' = jsQueue]_vars

C8_Witness ==
  \E i, j \in DOMAIN instances :
    /\ instances[i].module /\ ~instances[i].handler
    /\ instances[i].reports = <<[r |-> TRUE, by |-> "launch"]>>
    /\ ~instances[j].module /\ instances[j].reports = <<[r |-> TRUE, by |-> "launch"]>>

C10_CompleteReports ==
  [][(NextCall("completeBackgroundProcessing") /\ callQueue' = Tail(callQueue)) =>
       LET c == Head(callQueue) IN
         IF c.n \in DOMAIN executingTasks
         THEN /\ c.n \notin DOMAIN executingTasks'
              /\ instances' = [instances EXCEPT ![executingTasks[c.n]].reports =
                                 Append(@, [r |-> c.r, by |-> "complete"])]
         ELSE /\ instances' = instances
              /\ executingTasks' = executingTasks]_vars

C10_Witness ==
  /\ \E i \in DOMAIN instances : instances[i].reports = <<[r |-> FALSE, by |-> "complete"]>>
  /\ \E i \in DOMAIN instances : instances[i].reports = <<[r |-> TRUE, by |-> "complete"]>>

\* ------------------------------------------------------------ C11
\* C11: after two successive scheduleBackgroundProcessingTask calls for the
\* same task name have both been accepted, the earlier call's executing and
\* expired callbacks are no longer registered and at most one on-executing
\* callback is registered, so one OS invocation starts the job once.
C11_OneLiveRegistration ==
  \A a \in DOMAIN schedCalls :
    (/\ a + 1 \in DOMAIN schedCalls
     /\ schedCalls[a].st = "fulfilled" /\ schedCalls[a + 1].st = "fulfilled"
     /\ schedCalls[a].n = schedCalls[a + 1].n) =>
      /\ ProcListener(Executing, a) \notin listeners
      /\ ProcListener(Expired, a) \notin listeners
      /\ Cardinality(ListenersOf(Executing)) <= 1

\* ------------------------------------------------------------ C12
\* C12: the OS never invokes a processing task that was scheduled (its
\* schedule call had returned) and then cancelled, by a
\* cancelBackgroundProcessingTask of its name that the native module has
\* handled or by a cancelAllBackgroundProcessingTasks, with no schedule call
\* for it since.
C12_CancelledNotInvoked ==
  [][Len(instances') > Len(instances) =>
       LET id == instances'[Len(instances')].id
           K == {k \in DOMAIN schedCalls :
                   schedCalls[k].n = id \/ schedCalls[k].st = "cancelledAll"}
           last == CHOOSE k \in K : \A m \in K : m <= k IN
         ~(/\ K # {}
           /\ schedCalls[last].st \in {"cancelled", "cancelledAll"}
           /\ id \in schedCalls[last].after)]_vars

\* ------------------------------------------------------------ C13
\* C13: a scheduleBackgroundProcessingTask call adds only its own two
\* listeners; when the OS declines the submission the call fails (rejected),
\* its catch removes exactly those two listeners and leaves
\* registeredCallbacks as it is, so nothing of the call remains registered.
C13_DeclinedScheduleRestores ==
  [][/\ (Len(schedCalls') > Len(schedCalls)
           /\ schedCalls'[Len(schedCalls')].st = "awaiting") =>
          LET s == Len(schedCalls') IN
            /\ listeners' = listeners \cup {ProcListener(Executing, s), ProcListener(Expired, s)}
            /\ registeredCallbacks' = registeredCallbacks
     /\ (NextMsg("schedRejected") /\ jsQueue' = Tail(jsQueue)) =>
          LET s == Head(jsQueue).p IN
            /\ listeners' = listeners \ {ProcListener(Executing, s), ProcListener(Expired, s)}
            /\ registeredCallbacks' = registeredCallbacks
            /\ schedCalls'[s].st = "rejected"
     /\ \A s \in DOMAIN schedCalls' :
          schedCalls'[s].st = "rejected" =>
            /\ ProcListener(Executing, s) \notin listeners'
            /\ ProcListener(Expired, s) \notin listeners'
            /\ \A n \in DOMAIN registeredCallbacks' : registeredCallbacks'[n] # s]_vars

C13_Witness ==
  \E s, o \in DOMAIN schedCalls :
    /\ schedCalls[s].st = "rejected" /\ o # s
    /\ ProcListener(Executing, o) \in listeners /\ ProcListener(Expired, o) \in listeners
    /\ \E n \in DOMAIN registeredCallbacks : registeredCallbacks[n] = o

\* ------------------------------------------------------------ C14
\* C14: downloadTicks with totalTicks <= 0 or >= 256 fails with the
\* invalid-argument error, and no write is issued and no notification
\* subscription made, then or later.
C14_InvalidTotalRejected ==
  (dl.st # "none" /\ (dl.total <= 0 \/ dl.total >= 256)) =>
    /\ dl.st = "rejected" /\ dl.reason = "invalid"
    /\ dl.write = "none" /\ dl.monitor = "none"
    /\ dl.onTicks = <<>> /\ dl.rx = <<>>

C14_Witness == dl.st = "rejected" /\ dl.total = 256

\* ------------------------------------------------------------ C15
\* C15: for totalTicks in 1..255 and no error on the notification channel,
\* the k-th onTick call is onTick(k, totalTicks, k-th value notified), there
\* are never more than totalTicks calls, the promise is resolved exactly when
\* receivedTicks = totalTicks, and the subscription is removed by then.
C15_TicksInOrder ==
  (dl.st # "none" /\ dl.total \in 1..255 /\ dl.errors = 0) =>
    /\ dl.onTicks = [k \in 1..dl.receivedTicks |-> <<k, dl.total, k>>]
    /\ dl.receivedTicks <= dl.total
    /\ dl.receivedTicks + Len(dl.rx) <= dl.sent
    /\ (dl.st = "resolved") <=> (dl.receivedTicks = dl.total)
    /\ dl.st = "resolved" => dl.monitor = "removed"
    /\ ~dl.late

C15_Witness ==
  /\ dl.st = "resolved" /\ dl.total = 255 /\ Len(dl.onTicks) = 255
  /\ dl.sent > dl.total /\ dl.write = "ok"

\* ------------------------------------------------------------ C16
\* C16: once downloadTicks has failed by a transport error (on the write or
\* on the notification channel), its notification subscription is removed
\* and onTick has not been called since.
C16_ErrorReleasesSubscription ==
  (dl.st = "rejected" /\ dl.reason \in {"write", "notify"}) =>
    /\ dl.monitor = "removed"
    /\ ~dl.late

\* ------------------------------------------------------------ C17
\* C17: waitForPendingTicks resolves exactly TickTimeout after the later of
\* its start and the last value received: it is not pending beyond that
\* time, and when it resolves that much time has passed since the last onTick
\* call (since the start, with no onTick call).
C17_ResolvesAfterIdle ==
  /\ drain.st = "pending" => drain.clock <= drain.last + TickTimeout
  /\ drain.st = "resolved" => drain.settledAt = drain.last + TickTimeout

\* ------------------------------------------------------------ C18
\* C18: an establishConnection call that found a connected device never
\* starts a scan and goes to connect/discover with that device; a call that
\* starts a scan found no connected device and had the radio report PoweredOn
\* before; no call queries or connects before PoweredOn was reported to it.
C18_ScanOnlyIfNoneConnected ==
  \A c \in DOMAIN conn.calls :
    LET call == conn.calls[c] IN
      /\ call.found = "device" => (~call.scanned /\ call.registered)
      /\ call.scanned => (call.found = "none" /\ call.reportedOn)
      /\ call.pc # "waitForBLEState" => call.reportedOn
      /\ call.registered => (call.found = "device" \/ call.scanned)

C18_Witness ==
  \E a, b \in DOMAIN conn.calls :
    /\ conn.calls[a].scanned /\ conn.calls[a].st = "resolved"
    /\ conn.calls[b].found = "device" /\ conn.calls[b].st = "resolved"

\* ------------------------------------------------------------ C19
\* C19: the disconnect observer registered by a call is registered exactly
\* until the first disconnect after its registration, and onDisconnected (if
\* given) has been invoked once from that disconnect on, never before and
\* never again.
C19_DisconnectedOnce ==
  \A c \in DOMAIN conn.calls :
    LET call == conn.calls[c] IN
      IF call.registered
      THEN /\ (c \in conn.observers) <=> (conn.disconnects = call.registeredAt)
           /\ call.invoked = IF call.callback /\ conn.disconnects > call.registeredAt
                             THEN 1 ELSE 0
      ELSE c \notin conn.observers /\ call.invoked = 0

C19_Witness ==
  \E c \in DOMAIN conn.calls :
    /\ conn.calls[c].registered /\ conn.calls[c].callback /\ conn.calls[c].invoked = 1
    /\ conn.disconnects >= conn.calls[c].registeredAt + 2

\* ------------------------------------------------------------ C20
\* C20: once an establishConnection call has failed, the disconnect
\* subscription it registered (if any) is no longer registered.
C20_FailedCallLeavesNoObserver ==
  \A c \in DOMAIN conn.calls : conn.calls[c].st = "rejected" => c \notin conn.observers

\* ------------------------------------------------------------ C21
\* C21: once scanDevice(timeout > 0) has settled (match, scan error or
\* timeout) and the calls it made have reached the native module, the device
\* scan is stopped and its timeout timer is no longer pending: the work unit
\* of the timer is not waiting on the main queue.
C21_ScanTerminal ==
  (scan.st \in {"resolved", "rejected"} /\ scan.p # 0 /\ callQueue = <<>>)
    => /\ ~scan.scanning
       /\ \A b \in DOMAIN blocks : blocks[b].p = scan.p => blocks[b].st # "scheduled"

\* ------------------------------------------------------------ C22
\* C22: at no time are two establishConnection calls in flight (pending in
\* their scan or connect steps), counting the call of the Connect button and
\* the call of the processing job.
C22_OneEstablishInFlight ==
  Cardinality({c \in DOMAIN conn.calls : conn.calls[c].st = "pending"}) <= 1

\* ------------------------------------------------------------ C23
\* C23: while an exported method of the module is between two of its
\* statements, no other step (a main-queue handler) changes the registry the
\* method works on: here executingTasks during completeBackgroundProcessing.
C23_NoInterleaving ==
  [][(mq.pc # "idle" /\ mq'.pc # "idle") => executingTasks' = executingTasks]_vars

\* ------------------------------------------------------------ C24
\* C24: setTaskCompletedWithSuccess is called at most once for every
\* processing task instance delivered by the OS.
C24_CompletedAtMostOnce ==
  \A i \in DOMAIN instances : Len(instances[i].reports) <= 1

\* ------------------------------------------------------------ C25
\* C25: every processing task instance handed to backgroundTaskExecuting is
\* eventually reported completed to the OS.  Stated on the runs that have
\* come to rest: once the OS has fired the expiry, every queued call and
\* event has been handled and every job has settled (no step of
\* RestoredProgress is left), every instance delivered has been reported.
C25_CompletedAtRest ==
  (~ENABLED RestoredProgress)
    => \A i \in DOMAIN instances : instances[i].reports # <<>>

\* ------------------------------------------------------------ C26
\* C26: every window granted by the OS and not given back is recorded in
\* pendingBackgroundTasks under its task name.
C26_GrantedTokensTracked ==
  \A t \in DOMAIN tokens : tokens[t].st = "active" => Tracked(t)

\* ------------------------------------------------------------ C27
\* C27: every window whose expiry the OS has signalled is eventually given
\* back to the OS.
C27_ExpiredEventuallyReleased ==
  \A t \in 1..MaxStarts :
    []((Len(tokens) >= t /\ tokens[t].expired)
         => <>(Len(tokens) >= t /\ tokens[t].st = "released"))

\* ------------------------------------------------------------ C28
\* C28: the on-executing callback given to a scheduleBackgroundProcessingTask
\* call runs only for events of the task name that call scheduled: every job
\* started by the callback of schedule call s is for the name of s.
C28_CallbacksOfOwnName ==
  \A j \in DOMAIN procJobs : procJobs[j].n = schedCalls[procJobs[j].s].n

\* ------------------------------------------------------------ C29
\* C29: in waitForPendingTicks, once the calls made have reached the native
\* module at most one idle timer is pending; the session resolves through
\* the most recently started timer; and after resolution no timer is left
\* pending.
C29_OneIdleTimer ==
  LET pending == {b \in DOMAIN blocks : blocks[b].st = "scheduled"} IN
    /\ callQueue = <<>> => Cardinality(pending) <= 1
    /\ drain.st = "resolved" => timeouts[Len(timeouts)].st = "ran"
    /\ (drain.st = "resolved" /\ callQueue = <<>>) => pending = {}

====
